---- MODULE Spec2Model ----
(***************************************************************************)
(* gopinyin: a terminal flashcard viewer (bubbletea).  The model follows   *)
(* src/main.go: the model struct, initialModel, model.Update, fetchExample,*)
(* getAPIKey, initEnv and main, and the seed deck of src/words/words.go.   *)
(*                                                                         *)
(* Text: the module language has ASCII strings only, so the seed deck's    *)
(* Chinese is written as code points and its pinyin with tone numbers.     *)
(* A text input holds a sequence of runes (one-character strings) and a    *)
(* cursor, as bubbles/textinput does; Value() turns it into a string.      *)
(* Indices are 0-based as in Go; words[i + 1] is Go's m.words[i].          *)
(***************************************************************************)
EXTENDS Bags, FiniteSets, Integers, Sequences, TLC

VARIABLES
    pc,             \* "start" | "running" | "quit" | "fatal": position of main
    session,        \* environment: what this session's surroundings and user do (see Sessions)
    words,          \* m.words
    currentIndex,   \* m.currentIndex
    showDetails,    \* m.showDetails
    addingNewCard,  \* m.addingNewCard
    inputs,         \* m.inputs: four text inputs [value, pos, focus]
    focusIndex,     \* m.focusIndex
    loadingExample, \* m.loadingExample
    inflight,       \* bag of fetchExample commands issued and not yet returned
    fetches,        \* number of fetchExample commands issued so far
    typed,          \* number of runes inserted into text inputs so far
    lastEvent,      \* history: the message Update handled last
    prevNav,        \* history: the navigation key before lastEvent, and the index before it
    run,            \* history: the current run of one repeated key, and the state it began in
    entry           \* history: the state in which the add key opened the form

model == <<words, currentIndex, showDetails, addingNewCard, inputs, focusIndex, loadingExample>>
vars == <<pc, session, words, currentIndex, showDetails, addingNewCard, inputs,
          focusIndex, loadingExample, inflight, fetches, typed, lastEvent, prevNav, run,
          entry>>

----------------------------------------------------------------------------
(* Bounds of the exploration *)

\* the session starts with the first SeedCards entries of Words.ExampleWords
SeedCards == 2
\* cards appended through the add-card form
MaxAdded == 1
\* fetchExample commands issued in one session
MaxFetches == 2
\* runes typed into the form in one session
MaxTyped == 4

(* Program constants *)

\* t.CharLimit
CharLimit == 50
\* len(m.inputs)
NumInputs == 4
\* the inputs a save requires: m.inputs[0], m.inputs[1], m.inputs[2]
RequiredFields == 3

----------------------------------------------------------------------------
(* Data *)

Word(p, c, d, e) == [Pinyin |-> p, Chinese |-> c, Definition |-> d, Example |-> e]

ExampleWords ==
    << Word("ni3 hao3", "U+4F60 U+597D", "Hello", ""),
       Word("xie4 xie4", "U+8C22 U+8C22", "Thank you", ""),
       Word("zao3", "U+65E9", "Morning", "Zao3, good morning!"),
       Word("peng2you", "U+670B U+53CB", "Friend", "Wo3 de peng2you hen3 hao3."),
       Word("chi1 fan4", "U+5403 U+996D", "Eat meal", "Wo3men qu4 chi1 fan4."),
       Word("hao3", "U+597D", "Good", "Hen3 hao3, that's good!"),
       Word("shui3", "U+6C34", "Water", "Wo3 yao4 yi1 bei1 shui3."),
       Word("ai4", "U+7231", "Love", "Wo3 ai4 ni3 means I love you."),
       Word("ren2", "U+4EBA", "Person", "Mei3 ge4 ren2 dou1 bu4 tong2."),
       Word("jia1", "U+5BB6", "Home/Family", "Wo3 de jia1 zai4 Bei3jing1.") >>

SeedDeck == SubSeq(ExampleWords, 1, SeedCards)

\* the keys the environment presses: the key names of msg.String()
Keys == {"ctrl+c", "esc", "tab", "shift+tab", "enter", "right", "left", "a", "q"}
\* the keys pressed while the add-card form is open: the user types the rune "a" only
\* and does not move the cursor, so every text input keeps its cursor at the end
FormKeys == Keys \ {"left", "right", "q"}
\* the keys that have a case in the normal navigation state and are no case of the form
BindingKeys == {"q", "right", "l", "left", "h", " ", "a"}
\* the keys a text input inserts as text
TextKeys == {"a", "q", " ", "h", "l"}

\* error is nil: <<>>; a non-nil error with text t: <<t>>
NilError == <<>>
Errorf(t) == <<t>>

ExampleMsg(i, ex, err) == [Index |-> i, Example |-> ex, Error |-> err]

\* what the remote endpoint can do with one request
Responses ==
    { [kind |-> "transport", text |-> "dial tcp: connection refused"],
      [kind |-> "malformed", text |-> "unexpected end of JSON input"],
      [kind |-> "apierror", text |-> "Incorrect API key provided"],
      [kind |-> "nochoices", text |-> ""],
      [kind |-> "ok", text |-> "Ni3 hao3 means hello"] }

(* The environment of one session: whether godotenv.Load finds a .env file,  *)
(* whether OPENAI_API_KEY is non-empty once it is loaded, and how much the   *)
(* user does: how many fetches the user triggers and how many runes the user *)
(* types.  A session that fetches most types nothing, one that types most    *)
(* fetches nothing, and one fetches once and types just enough to save one   *)
(* card; without a credential the first fetch is the last: in that session   *)
(* the user also presses the keys of the navigation state while the form is  *)
(* open, cursor keys among them, and types one rune.  form is the set of     *)
(* keys the user presses in the form besides cancel, Tab, Shift-Tab and      *)
(* Enter; the user of a session with no such key never opens the form.  In   *)
(* the last session the user fetches once and visits the form typing nothing.*)
Session(f, key, nf, nt, fk) ==
    [envFile |-> f, apiKeySet |-> key, fetch |-> nf, typed |-> nt, form |-> fk]

Sessions ==
    {Session(FALSE, TRUE, 0, 0, FormKeys)}
        \cup {Session(TRUE, FALSE, 1, 1, BindingKeys), Session(TRUE, TRUE, MaxFetches, 0, {})}
        \cup {Session(TRUE, TRUE, 1, RequiredFields, FormKeys),
              Session(TRUE, TRUE, 0, MaxTyped, FormKeys)}
        \cup {Session(TRUE, TRUE, 1, 0, FormKeys)}

envFile == session.envFile
apiKeySet == session.apiKeySet

\* the keys the user of this session presses (the guard of the actions that take a key)
Pressed == IF session.form = {} THEN Keys \ {"a"} ELSE Keys \cup session.form

----------------------------------------------------------------------------
(* bubbles/textinput, as far as Update uses it *)

RECURSIVE Str(_)
\* string(m.value)
Str(runes) == IF runes = <<>> THEN "" ELSE Head(runes) \o Str(Tail(runes))

Value(t) == Str(t.value)

NewInput == [value |-> <<>>, pos |-> 0, focus |-> FALSE]

Focus(t) == [t EXCEPT !.focus = TRUE]

\* a slip: an input that loses the focus loses its text
BlurAndClear(t) == [t EXCEPT !.focus = FALSE, !.value = <<>>, !.pos = 0]

Blur(t) == [t EXCEPT !.focus = FALSE]

Reset(t) == [t EXCEPT !.value = <<>>, !.pos = 0]

\* textinput.Model.Update for a key message: only a focused input reacts
InputUpdate(t, k) ==
    IF ~t.focus THEN t
    ELSE IF k \in TextKeys THEN
        IF Len(t.value) >= CharLimit THEN t
        ELSE [t EXCEPT !.value = SubSeq(t.value, 1, t.pos) \o <<k>>
                                    \o SubSeq(t.value, t.pos + 1, Len(t.value)),
                       !.pos = t.pos + 1]
    ELSE IF k = "left" THEN [t EXCEPT !.pos = IF t.pos > 0 THEN t.pos - 1 ELSE 0]
    ELSE IF k = "right" THEN [t EXCEPT !.pos = IF t.pos < Len(t.value) THEN t.pos + 1 ELSE t.pos]
    ELSE t

\* the loop "for i := range m.inputs { m.inputs[i], cmd = m.inputs[i].Update(msg) }"
UpdateInputs(ins, k) == [i \in 1..NumInputs |-> InputUpdate(ins[i], k)]

\* the number of runes the loop inserts
Inserted(ins, k) ==
    IF k \in TextKeys
    THEN Cardinality({i \in 1..NumInputs : ins[i].focus /\ Len(ins[i].value) < CharLimit})
    ELSE 0

\* a slip: the others keep the focus they have
FocusWithoutBlur(ins, f) == [i \in 1..NumInputs |-> IF i - 1 = f THEN Focus(ins[i]) ELSE ins[i]]

\* focus input f, blur the others
FocusOnly(ins, f) == [i \in 1..NumInputs |-> IF i - 1 = f THEN Focus(ins[i]) ELSE Blur(ins[i])]

----------------------------------------------------------------------------
(* initialModel *)

initialModel ==
    /\ words = SeedDeck
    /\ currentIndex = 0
    /\ showDetails = FALSE
    /\ addingNewCard = FALSE
    /\ inputs = [i \in 1..NumInputs |-> Focus(NewInput)]
    /\ focusIndex = 0
    /\ loadingExample = FALSE

----------------------------------------------------------------------------
(* History: what Update handled, kept for stating the properties *)

NoMsg == ExampleMsg(0, "", NilError)
NoEvent == [type |-> "none", key |-> "", msg |-> NoMsg, resp |-> "", adding |-> FALSE, index |-> 0]
\* a key message, handled in the mode and at the index of the state before it
KeyEvent(k) == [type |-> "key", key |-> k, msg |-> NoMsg, resp |-> "", adding |-> addingNewCard,
                index |-> IF ~addingNewCard /\ k \in {"right", "left"} THEN currentIndex ELSE 0]
\* an ExampleMsg, and the kind of answer of the endpoint it reports
MsgEvent(m, r) == [type |-> "ExampleMsg", key |-> "", msg |-> m, resp |-> r.kind,
                   adding |-> addingNewCard, index |-> 0]

IsNav(e) == e.type = "key" /\ ~e.adding /\ e.key \in {"right", "left"}

NoNav == [key |-> "", index |-> 0]
NoRun == [key |-> "", n |-> 0, adding |-> FALSE, index |-> 0, details |-> FALSE,
          focus |-> 0, words |-> <<>>, buffers |-> <<>>]

\* no visit of the form is followed
NoEntry == [details |-> FALSE, loading |-> FALSE, fetches |-> 0]

\* the runs that are followed: "next" and toggling while browsing, focus changes in the form
Followed(e) ==
    IF e.adding THEN e.key \in {"tab", "shift+tab"} ELSE e.key \in {"right", "enter"}

\* how long a run of one key is followed before a new run is started
RunLimit(k) == IF k = "right" THEN Len(words) ELSE NumInputs

Observe(e) ==
    /\ lastEvent' = e
    /\ prevNav' = IF IsNav(lastEvent) THEN [key |-> lastEvent.key, index |-> lastEvent.index]
                  ELSE NoNav
    /\ run' = IF e.type # "key" \/ ~Followed(e) THEN NoRun
              ELSE IF run.key = e.key /\ run.adding = addingNewCard /\ run.n < RunLimit(e.key)
                   THEN [run EXCEPT !.n = run.n + 1]
              ELSE [key |-> e.key, n |-> 1, adding |-> addingNewCard, index |-> currentIndex,
                    details |-> showDetails, focus |-> focusIndex, words |-> words,
                    buffers |-> [i \in 1..NumInputs |-> inputs[i].value]]
    \* a visit of the form is followed from the add key to the first message after the form
    /\ entry' = IF e.adding THEN entry
                ELSE IF e.type = "key" /\ e.key = "a"
                     THEN [details |-> showDetails, loading |-> loadingExample,
                           fetches |-> fetches]
                ELSE NoEntry

----------------------------------------------------------------------------
(* main, initEnv *)

Init ==
    /\ pc = "start"
    /\ session \in Sessions
    /\ initialModel
    /\ inflight = EmptyBag
    /\ fetches = 0
    /\ typed = 0
    /\ lastEvent = NoEvent
    /\ prevNav = NoNav
    /\ run = NoRun
    /\ entry = NoEntry

\* main: initEnv aborts when no .env file loads, else the program starts
Main ==
    /\ pc = "start"
    /\ pc' = IF envFile THEN "running" ELSE "fatal"
    /\ UNCHANGED <<session, model, inflight, fetches, typed, lastEvent, prevNav, run, entry>>

----------------------------------------------------------------------------
(* model.Update, adding-new-card state (m.addingNewCard) *)

\* a slip: cancelling also resets the form
AddingCancelAndReset(k) ==
    /\ pc = "running" /\ addingNewCard
    /\ k \in {"ctrl+c", "esc"}
    /\ addingNewCard' = FALSE
    /\ inputs' = [i \in 1..NumInputs |-> Reset(inputs[i])]
    /\ focusIndex' = 0
    /\ Observe(KeyEvent(k))
    /\ UNCHANGED <<pc, session, words, currentIndex, showDetails,
                   loadingExample, inflight, fetches, typed>>

\* case tea.KeyCtrlC, tea.KeyEsc
AddingCancel(k) ==
    /\ pc = "running" /\ addingNewCard
    /\ k \in {"ctrl+c", "esc"}
    /\ addingNewCard' = FALSE
    /\ Observe(KeyEvent(k))
    /\ UNCHANGED <<pc, session, words, currentIndex, showDetails, inputs,
                   focusIndex, loadingExample, inflight, fetches, typed>>

\* m.focusIndex after a tab (d = 1) or shift+tab (d = -1)
BadAdvanceFocus(f, d) ==
    IF f + d > NumInputs - 1 THEN NumInputs - 1
    ELSE IF f + d < 0 THEN 0
    ELSE f + d

AdvanceFocus(f, d) ==
    IF f + d > NumInputs - 1 THEN 0
    ELSE IF f + d < 0 THEN NumInputs - 1
    ELSE f + d

\* case tea.KeyTab, tea.KeyShiftTab
AddingFocus(k) ==
    /\ pc = "running" /\ addingNewCard
    /\ k \in {"tab", "shift+tab"}
    /\ LET f == AdvanceFocus(focusIndex, IF k = "tab" THEN 1 ELSE -1)
       IN /\ focusIndex' = f
          /\ inputs' = UpdateInputs(FocusOnly(inputs, f), k)
    /\ Observe(KeyEvent(k))
    /\ UNCHANGED <<pc, session, words, currentIndex, showDetails, addingNewCard,
                   loadingExample, inflight, fetches, typed>>

\* a slip: the definition is not required
IsCompleteWithoutDefinition(ins) == Value(ins[1]) # "" /\ Value(ins[2]) # ""

\* the condition of the save: Chinese, Pinyin and Definition are filled
IsComplete(ins) == Value(ins[1]) # "" /\ Value(ins[2]) # "" /\ Value(ins[3]) # ""

\* a slip: Chinese and Pinyin taken from each other's input
NewWordSwapped(ins) == Word(Value(ins[1]), Value(ins[2]), Value(ins[3]), "")

\* newWord := Words.Word{...}
NewWord(ins) == Word(Value(ins[2]), Value(ins[1]), Value(ins[3]), "")

\* a slip: the saved card is shown with its details hidden
AddingEnterHidesDetails(k) ==
    /\ pc = "running" /\ addingNewCard
    /\ k = "enter"
    /\ IF IsComplete(inputs)
       THEN /\ Len(words) < Len(SeedDeck) + MaxAdded
            /\ words' = Append(words, NewWord(inputs))
            /\ addingNewCard' = FALSE
            /\ currentIndex' = Len(words')  - 1
            /\ inputs' = UpdateInputs([i \in 1..NumInputs |-> Reset(inputs[i])], k)
            /\ focusIndex' = 0
            /\ showDetails' = FALSE
       ELSE /\ inputs' = UpdateInputs(inputs, k)
            /\ UNCHANGED <<words, addingNewCard, currentIndex, focusIndex, showDetails>>
    /\ Observe(KeyEvent(k))
    /\ UNCHANGED <<pc, session, loadingExample, inflight, fetches, typed>>

\* case tea.KeyEnter
AddingEnter(k) ==
    /\ pc = "running" /\ addingNewCard
    /\ k = "enter"
    /\ IF IsComplete(inputs)
       THEN /\ Len(words) < Len(SeedDeck) + MaxAdded
            /\ words' = Append(words, NewWord(inputs))
            /\ addingNewCard' = FALSE
            /\ currentIndex' = Len(words')  - 1
            /\ inputs' = UpdateInputs([i \in 1..NumInputs |-> Reset(inputs[i])], k)
            /\ focusIndex' = 0
       ELSE /\ inputs' = UpdateInputs(inputs, k)
            /\ UNCHANGED <<words, addingNewCard, currentIndex, focusIndex>>
    /\ Observe(KeyEvent(k))
    /\ UNCHANGED <<pc, session, showDetails, loadingExample, inflight, fetches, typed>>

\* a slip: the space bar toggles the details in the form as well
AddingOtherToggles(k) ==
    /\ pc = "running" /\ addingNewCard
    /\ k \in session.form \ {"ctrl+c", "esc", "tab", "shift+tab", "enter"}
    /\ typed + Inserted(inputs, k) <= session.typed
    /\ typed' = typed + Inserted(inputs, k)
    /\ inputs' = UpdateInputs(inputs, k)
    /\ showDetails' = IF k = " " THEN ~showDetails ELSE showDetails
    /\ Observe(KeyEvent(k))
    /\ UNCHANGED <<pc, session, words, currentIndex, addingNewCard,
                   focusIndex, loadingExample, inflight, fetches>>

\* any other key: only the text inputs handle it
AddingOther(k) ==
    /\ pc = "running" /\ addingNewCard
    /\ k \in session.form \ {"ctrl+c", "esc", "tab", "shift+tab", "enter"}
    /\ typed + Inserted(inputs, k) <= session.typed
    /\ typed' = typed + Inserted(inputs, k)
    /\ inputs' = UpdateInputs(inputs, k)
    /\ Observe(KeyEvent(k))
    /\ UNCHANGED <<pc, session, words, currentIndex, showDetails, addingNewCard,
                   focusIndex, loadingExample, inflight, fetches>>

----------------------------------------------------------------------------
(* fetchExample *)

\* the command fetchExample(word, index) returns: a closure over word and index
FetchCmd(word, index) == [Index |-> index, Chinese |-> word.Chinese]

\* a slip: an answer without choices passed on as an empty example
FetchResultEmptyChoice(cmd, resp) ==
    IF resp.kind \in {"transport", "malformed", "apierror"}
    THEN ExampleMsg(cmd.Index, "", Errorf(resp.text))
    ELSE ExampleMsg(cmd.Index, resp.text, NilError)

\* the message the command returns when the endpoint answers with resp
FetchResult(cmd, resp) ==
    IF resp.kind \in {"transport", "malformed"} THEN ExampleMsg(cmd.Index, "", Errorf(resp.text))
    ELSE IF resp.kind = "apierror" /\ resp.text # ""
        THEN ExampleMsg(cmd.Index, "", Errorf(resp.text))
    ELSE IF resp.kind # "ok" THEN ExampleMsg(cmd.Index, "", Errorf("No choices returned"))
    ELSE ExampleMsg(cmd.Index, resp.text, NilError)

\* getAPIKey inside a running command: log.Fatal ends the process
FetchFatal(cmd) ==
    /\ pc = "running"
    /\ BagIn(cmd, inflight)
    /\ ~apiKeySet
    /\ pc' = "fatal"
    /\ UNCHANGED <<session, model, inflight, fetches, typed, lastEvent, prevNav, run, entry>>

----------------------------------------------------------------------------
(* model.Update, ExampleMsg *)

\* a slip: the error text without its prefix
ErrorTextBare(err) == err[1]

\* fmt.Sprintf("Error: %v", msg.Error)
ErrorText(err) == "Error: " \o err[1]

\* a slip: a result for a card that is no longer shown is dropped
SetExampleIfCurrent(ws, msg) ==
    IF msg.Index # currentIndex \/ addingNewCard THEN ws
    ELSE [ws EXCEPT ![msg.Index + 1].Example =
            IF msg.Error # NilError THEN ErrorText(msg.Error) ELSE msg.Example]

\* m.words after "case ExampleMsg"
SetExample(ws, msg) ==
    [ws EXCEPT ![msg.Index + 1].Example =
        IF msg.Error # NilError THEN ErrorText(msg.Error) ELSE msg.Example]

\* a slip: the message leaves the loading flag as it is
RecvExampleMsgKeepsLoading(cmd, resp) ==
    /\ pc = "running"
    /\ BagIn(cmd, inflight)
    /\ apiKeySet
    /\ LET msg == FetchResult(cmd, resp)
       IN /\ words' = SetExample(words, msg)
          /\ Observe(MsgEvent(msg, resp))
    /\ inflight' = inflight (-) SetToBag({cmd})
    /\ UNCHANGED <<pc, session, currentIndex, showDetails, addingNewCard, inputs,
                   focusIndex, loadingExample, fetches, typed>>

\* a command returns its message and Update handles it (in either mode)
RecvExampleMsg(cmd, resp) ==
    /\ pc = "running"
    /\ BagIn(cmd, inflight)
    /\ apiKeySet
    /\ LET msg == FetchResult(cmd, resp)
       IN /\ loadingExample' = FALSE
          /\ words' = SetExample(words, msg)
          /\ Observe(MsgEvent(msg, resp))
    /\ inflight' = inflight (-) SetToBag({cmd})
    /\ UNCHANGED <<pc, session, currentIndex, showDetails, addingNewCard, inputs,
                   focusIndex, fetches, typed>>

----------------------------------------------------------------------------
(* model.Update, normal navigation state *)

\* case "ctrl+c", "q": tea.Quit (the program ends: the history follows no run further)
Quit(k) ==
    /\ pc = "running" /\ ~addingNewCard
    /\ k \in {"ctrl+c", "q"}
    /\ pc' = "quit"
    /\ lastEvent' = KeyEvent(k)
    /\ prevNav' = NoNav
    /\ run' = NoRun
    /\ entry' = NoEntry
    /\ UNCHANGED <<session, model, inflight, fetches, typed>>

\* a slip: no wrap at the end of the deck
NextIndexNoWrap(i, n) == i + 1

\* m.currentIndex after "right": (m.currentIndex + 1) % len(m.words)
NextIndex(i, n) == (i + 1) % n

\* a slip: the first card is its own predecessor
PrevIndexClamped(i, n) == IF i = 0 THEN 0 ELSE i - 1

\* m.currentIndex after "left": (m.currentIndex - 1 + len(m.words)) % len(m.words);
\* the dividend is never negative, so Go's % and the modulus here agree
PrevIndex(i, n) == (i - 1 + n) % n

\* case "right", "l"
NextWord(k) ==
    /\ pc = "running" /\ ~addingNewCard
    /\ k \in {"right", "l"} /\ k \in Pressed
    /\ currentIndex' = NextIndex(currentIndex, Len(words))
    /\ showDetails' = FALSE
    /\ loadingExample' = FALSE
    /\ Observe(KeyEvent(k))
    /\ UNCHANGED <<pc, session, words, addingNewCard, inputs, focusIndex,
                   inflight, fetches, typed>>

\* case "left", "h"
PrevWord(k) ==
    /\ pc = "running" /\ ~addingNewCard
    /\ k \in {"left", "h"} /\ k \in Pressed
    /\ currentIndex' = PrevIndex(currentIndex, Len(words))
    /\ showDetails' = FALSE
    /\ loadingExample' = FALSE
    /\ Observe(KeyEvent(k))
    /\ UNCHANGED <<pc, session, words, addingNewCard, inputs, focusIndex,
                   inflight, fetches, typed>>

\* a slip: hiding the details leaves the loading flag as it was
ToggleDetailsKeepLoading(k) ==
    /\ pc = "running" /\ ~addingNewCard
    /\ k \in {" ", "enter"} /\ k \in Pressed
    /\ showDetails' = ~showDetails
    /\ IF ~showDetails
       THEN /\ fetches < session.fetch
            /\ loadingExample' = TRUE
            /\ inflight' = inflight (+) SetToBag({FetchCmd(words[currentIndex + 1], currentIndex)})
            /\ fetches' = fetches + 1
       ELSE UNCHANGED <<loadingExample, inflight, fetches>>
    /\ Observe(KeyEvent(k))
    /\ UNCHANGED <<pc, session, words, currentIndex, addingNewCard, inputs,
                   focusIndex, typed>>

\* case " ", "enter"
ToggleDetails(k) ==
    /\ pc = "running" /\ ~addingNewCard
    /\ k \in {" ", "enter"} /\ k \in Pressed
    /\ showDetails' = ~showDetails
    /\ IF ~showDetails
       THEN /\ fetches < session.fetch
            /\ loadingExample' = TRUE
            /\ inflight' = inflight (+) SetToBag({FetchCmd(words[currentIndex + 1], currentIndex)})
            /\ fetches' = fetches + 1
       ELSE /\ loadingExample' = FALSE
            /\ UNCHANGED <<inflight, fetches>>
    /\ Observe(KeyEvent(k))
    /\ UNCHANGED <<pc, session, words, currentIndex, addingNewCard, inputs,
                   focusIndex, typed>>

\* case "a": enter add card mode
EnterAddMode(k) ==
    /\ pc = "running" /\ ~addingNewCard
    /\ k = "a" /\ k \in Pressed
    /\ addingNewCard' = TRUE
    /\ focusIndex' = 0
    /\ inputs' = FocusOnly(inputs, 0)
    /\ Observe(KeyEvent(k))
    /\ UNCHANGED <<pc, session, words, currentIndex, showDetails, loadingExample,
                   inflight, fetches, typed>>

\* a key with no case: nothing changes (and the history does not record it)
BrowsingOther(k) ==
    /\ pc = "running" /\ ~addingNewCard
    /\ k \notin {"ctrl+c", "q", "right", "l", "left", "h", " ", "enter", "a"}
    /\ UNCHANGED vars

----------------------------------------------------------------------------
(* The program *)

\* one message through Update
KeyMsg(k) ==
    \/ AddingCancel(k)
    \/ AddingFocus(k)
    \/ AddingEnter(k)
    \/ AddingOther(k)
    \/ Quit(k)
    \/ NextWord(k)
    \/ PrevWord(k)
    \/ ToggleDetails(k)
    \/ EnterAddMode(k)
    \/ BrowsingOther(k)

Next ==
    \/ Main
    \/ \E k \in Keys \cup BindingKeys : KeyMsg(k)
    \/ \E cmd \in BagToSet(inflight) : FetchFatal(cmd)
    \/ \E cmd \in BagToSet(inflight), resp \in Responses : RecvExampleMsg(cmd, resp)

Spec == Init /\ [][Next]_vars

(* A command that was issued runs: bubbletea starts it in a goroutine of    *)
(* its own, where it either ends the process in getAPIKey or posts its      *)
(* request, and once the endpoint has answered its message reaches Update.  *)
CommandEnds == \E cmd \in BagToSet(inflight) : FetchFatal(cmd)
CommandReturns == \E cmd \in BagToSet(inflight), resp \in Responses : RecvExampleMsg(cmd, resp)

\* the sessions followed to their end: those in which the user fetches and types at most
\* one rune (what is typed into the form plays no part in what becomes of a command)
LiveInit == Init /\ session.fetch > 0 /\ session.typed <= 1

LiveSpec == LiveInit /\ [][Next]_vars /\ WF_vars(CommandEnds) /\ WF_vars(CommandReturns)

----------------------------------------------------------------------------
TypeOK ==
    /\ pc \in {"start", "running", "quit", "fatal"}
    /\ currentIndex \in Int
    /\ Len(inputs) = NumInputs

----------------------------------------------------------------------------
(* Steps, as the properties name them *)

\* this step is Update handling key k (stated on the history, not on the actions)
KeyStep(k) ==
    /\ pc = "running" /\ pc' # "fatal"
    /\ lastEvent'.type = "key" /\ lastEvent'.key = k
    /\ lastEvent'.adding = addingNewCard

\* this step is Update handling an ExampleMsg
MsgStep == pc = "running" /\ pc' # "fatal" /\ lastEvent'.type = "ExampleMsg"

\* the last message Update handled was key k, pressed while browsing / in the form
AfterBrowsingKey(k) == lastEvent.type = "key" /\ lastEvent.key = k /\ ~lastEvent.adding
AfterFormKey(k) == lastEvent.type = "key" /\ lastEvent.key = k /\ lastEvent.adding

----------------------------------------------------------------------------
(* C1: in every reachable state 0 <= currentIndex < len(Deck), and the deck *)
(* is not empty.                                                            *)
C1_IndexInRange == Len(words) >= 1 /\ 0 <= currentIndex /\ currentIndex < Len(words)

\* "left" on the first card of a deck that has grown wraps to the new last card
C1_Witness ==
    /\ AfterBrowsingKey("left") /\ lastEvent.index = 0
    /\ Len(words) > Len(SeedDeck)
    /\ currentIndex = Len(words) - 1

----------------------------------------------------------------------------
(* C2: while browsing, "next" and "previous" undo each other on            *)
(* currentIndex, in both orders, and "next" pressed len(Deck) times in a    *)
(* row brings currentIndex back to where the run began, from every index.   *)
C2_NavigationIsCyclic ==
    /\ (AfterBrowsingKey("left") /\ prevNav.key = "right") => currentIndex = prevNav.index
    /\ (AfterBrowsingKey("right") /\ prevNav.key = "left") => currentIndex = prevNav.index
    /\ (AfterBrowsingKey("right") /\ run.key = "right" /\ run.n = Len(words))
            => currentIndex = run.index

\* a full round of "next" on a deck of three cards that began on its last card
C2_Witness ==
    /\ AfterBrowsingKey("right") /\ run.key = "right"
    /\ Len(words) = Len(SeedDeck) + 1
    /\ run.n = Len(words)
    /\ run.index = Len(words) - 1
    /\ currentIndex = run.index

----------------------------------------------------------------------------
(* The add-card form, as the properties read it *)

\* the text in form buffer i (0-based, as in the source)
Buffer(i) == Str(inputs[i + 1].value)

\* buffers 0, 1 and 2 all hold text
RequiredFilled == \A i \in 0..2 : Len(inputs[i + 1].value) > 0

\* all four buffers are empty after this step
BuffersCleared == \A i \in 1..NumInputs : inputs'[i].value = <<>>

\* no buffer's text changes in this step
BuffersKept == \A i \in 1..NumInputs : inputs'[i].value = inputs[i].value

\* the last card of the deck after this step
LastCard == words'[Len(words')]

(* C3: Enter in the form with buffers 0, 1 and 2 filled appends exactly one *)
(* card whose chinese/pinyin/definition are buffers 0/1/2, makes it the     *)
(* current card, returns to browsing, clears the four buffers and sets      *)
(* focusIndex to 0.                                                         *)
C3_SaveAppendsCard ==
    [][(KeyStep("enter") /\ addingNewCard /\ RequiredFilled) =>
          /\ Len(words') = Len(words) + 1
          /\ SubSeq(words', 1, Len(words)) = words
          /\ LastCard.Chinese = Buffer(0)
          /\ LastCard.Pinyin = Buffer(1)
          /\ LastCard.Definition = Buffer(2)
          /\ currentIndex' = Len(words') - 1
          /\ ~addingNewCard'
          /\ BuffersCleared
          /\ focusIndex' = 0]_vars

\* a card was saved whose chinese and pinyin differ
C3_Witness ==
    /\ AfterFormKey("enter") /\ ~addingNewCard
    /\ Len(words) = Len(SeedDeck) + 1
    /\ words[Len(words)].Chinese = "aa"
    /\ words[Len(words)].Pinyin = "a"
    /\ currentIndex = Len(words) - 1
    /\ \A i \in 1..NumInputs : inputs[i].value = <<>>

(* C4: the card saved from the form takes its example from buffer 3 as it   *)
(* is at the moment of saving.                                              *)
C4_SavedExampleIsBuffer3 ==
    [][(KeyStep("enter") /\ addingNewCard /\ RequiredFilled) =>
          LastCard.Example = Buffer(3)]_vars

(* C5: Enter in the form while one of buffers 0, 1, 2 is empty changes      *)
(* nothing: deck, mode, currentIndex, focusIndex and the four buffers stay. *)
C5_IncompleteSaveIsNoOp ==
    [][(KeyStep("enter") /\ addingNewCard /\ ~RequiredFilled) =>
          /\ words' = words
          /\ addingNewCard'
          /\ currentIndex' = currentIndex
          /\ focusIndex' = focusIndex
          /\ BuffersKept]_vars

\* Enter was pressed with chinese and pinyin typed and the definition missing
C5_Witness ==
    /\ AfterFormKey("enter") /\ addingNewCard
    /\ Len(inputs[1].value) > 0 /\ Len(inputs[2].value) > 0
    /\ Len(inputs[3].value) = 0
    /\ Len(words) = Len(SeedDeck)

----------------------------------------------------------------------------
(* FetchResults, as the properties read them *)

\* the ExampleMsg this step handles, and the card it names (as an index into words)
Delivered == lastEvent'.msg
DeliveredCard == Delivered.Index + 1

\* the example text a delivered message stands for
DeliveredText ==
    IF Delivered.Error # NilError THEN "Error: " \o Delivered.Error[1] ELSE Delivered.Example

(* C6: a FetchResult for index i, in either mode, clears loadingExample and *)
(* sets card i's example to "Error: " plus the error text if there is an    *)
(* error, else to the example text; no other card, no other field of card i,*)
(* nor currentIndex, showDetails or the mode changes.                       *)
C6_DeliverySetsExample ==
    [][MsgStep =>
          /\ ~loadingExample'
          /\ Len(words') = Len(words)
          /\ \A j \in 1..Len(words) : j # DeliveredCard => words'[j] = words[j]
          /\ words'[DeliveredCard].Example = DeliveredText
          /\ words'[DeliveredCard].Chinese = words[DeliveredCard].Chinese
          /\ words'[DeliveredCard].Pinyin = words[DeliveredCard].Pinyin
          /\ words'[DeliveredCard].Definition = words[DeliveredCard].Definition
          /\ currentIndex' = currentIndex
          /\ showDetails' = showDetails
          /\ addingNewCard' = addingNewCard]_vars

\* an error result was delivered while the form was open
C6_Witness ==
    /\ lastEvent.type = "ExampleMsg" /\ lastEvent.adding /\ addingNewCard
    /\ lastEvent.msg.Error = <<"No choices returned">>
    /\ words[lastEvent.msg.Index + 1].Example = "Error: No choices returned"
    /\ ~loadingExample

(* C7: a FetchResult is written into the card of its index also when that   *)
(* card is no longer the one shown, the form is open or the deck has grown; *)
(* the deck never shrinks, so the index of every outstanding fetch stays a  *)
(* valid deck index.                                                        *)
C7_StaleResultIsWritten ==
    /\ [](\A cmd \in BagToSet(inflight) : 0 <= cmd.Index /\ cmd.Index < Len(words))
    /\ [][Len(words') >= Len(words)]_vars
    /\ [][(MsgStep /\ (Delivered.Index # currentIndex \/ addingNewCard
                          \/ Len(words) > Len(SeedDeck)))
             => words'[DeliveredCard].Example = DeliveredText]_vars

\* a result arrived for a card other than the current one, in a deck that has grown
C7_Witness ==
    /\ lastEvent.type = "ExampleMsg"
    /\ lastEvent.msg.Index # currentIndex
    /\ Len(words) > Len(SeedDeck)
    /\ lastEvent.msg.Error = NilError
    /\ words[lastEvent.msg.Index + 1].Example = lastEvent.msg.Example

(* C8: a fetch that fails (transport, malformed body, API error, no         *)
(* choices) is reported as one FetchResult with the index of the fetch and  *)
(* a non-nil error, and the session goes on; each fetch that returns is     *)
(* taken out of flight by exactly one FetchResult.                          *)
C8_FailureIsData ==
    [][MsgStep =>
          /\ pc' = "running"
          /\ lastEvent'.resp # "ok" => (Delivered.Error # NilError /\ Delivered.Example = "")
          /\ \E cmd \in BagToSet(inflight) :
                /\ Delivered.Index = cmd.Index
                /\ inflight' = inflight (-) SetToBag({cmd})]_vars

\* an answer without choices was reported as an error and the session runs on
C8_Witness ==
    /\ lastEvent.type = "ExampleMsg" /\ lastEvent.resp = "nochoices"
    /\ lastEvent.msg.Error # NilError
    /\ pc = "running"

(* C9: a missing API credential aborts the process at startup: in no state  *)
(* is the session interactive while the credential is absent.               *)
C9_CredentialCheckedAtStartup == pc = "running" => apiKeySet

(* C10: while browsing with the details hidden, toggle-details pressed      *)
(* twice with no FetchResult in between ends with showDetails and           *)
(* loadingExample both false, and with currentIndex and the deck as before. *)
C10_ToggleTwice ==
    (AfterBrowsingKey("enter") /\ run.key = "enter" /\ run.n = 2 /\ ~run.details) =>
        /\ ~showDetails
        /\ ~loadingExample
        /\ currentIndex = run.index
        /\ words = run.words

\* two toggles in a row from hidden details, the fetch of the first still in flight
C10_Witness ==
    /\ AfterBrowsingKey("enter") /\ run.key = "enter" /\ run.n = 2 /\ ~run.details
    /\ inflight # EmptyBag
    /\ pc = "running"
    /\ ~showDetails

----------------------------------------------------------------------------
(* C11: in the form, Tab moves focusIndex to (focusIndex + 1) mod 4 and     *)
(* Shift-Tab to (focusIndex - 1 + 4) mod 4; focusIndex stays in 0..3, and   *)
(* four Tabs in a row, or four Shift-Tabs in a row, bring focusIndex back   *)
(* to the field the run began in, whichever field that was.                 *)
C11_FocusIsCyclic ==
    /\ [](focusIndex \in 0..3)
    /\ [][(KeyStep("tab") /\ addingNewCard) => focusIndex' = (focusIndex + 1) % 4]_vars
    /\ [][(KeyStep("shift+tab") /\ addingNewCard) => focusIndex' = (focusIndex - 1 + 4) % 4]_vars
    /\ [](\A k \in {"tab", "shift+tab"} :
            (AfterFormKey(k) /\ run.key = k /\ run.adding /\ run.n = 4) => focusIndex = run.focus)

\* four Shift-Tabs in a row that began in field 2 (reached by Tab) are back in field 2
C11_Witness ==
    /\ AfterFormKey("shift+tab") /\ run.key = "shift+tab" /\ run.adding
    /\ run.n = 4
    /\ run.focus = 2
    /\ focusIndex = 2
    /\ addingNewCard

----------------------------------------------------------------------------
\* a run of n Tabs in the form that began in field 0 with text typed into field 0
TabsFromTypedField0(n) ==
    /\ AfterFormKey("tab") /\ run.key = "tab" /\ run.adding
    /\ run.n = n
    /\ run.focus = 0
    /\ run.buffers[1] # <<>>

(* C12 as stated: after entering the form, typing into field 0 and pressing *)
(* Tab three times, focus is back on field 0 and field 0 holds what was     *)
(* typed.                                                                   *)
C12_ThreeTabsReturn ==
    TabsFromTypedField0(3) => (focusIndex = 0 /\ inputs[1].value = run.buffers[1])

(* C12 amended: after entering the form and typing into field 0, three Tabs *)
(* leave focus on field 3 and the fourth Tab brings it back to field 0; the *)
(* buffers, field 0 with its typed text among them, are as typed all along. *)
C12_FourTabsReturn ==
    \A n \in 1..4 :
        TabsFromTypedField0(n) =>
            /\ focusIndex = n % 4
            /\ inputs[focusIndex + 1].focus
            /\ \A i \in 1..NumInputs : inputs[i].value = run.buffers[i]

\* "aa" typed into field 0, then four Tabs: focus is on field 0 again, the text is there
C12_Witness ==
    /\ TabsFromTypedField0(4)
    /\ addingNewCard
    /\ focusIndex = 0
    /\ Buffer(0) = "aa"

----------------------------------------------------------------------------
(* C13: in the form, the cancel key (Esc, or the interrupt Ctrl-C) returns  *)
(* to browsing and leaves the four buffers, focusIndex, the deck,           *)
(* currentIndex, showDetails and loadingExample as they are; the session    *)
(* goes on.                                                                 *)
C13_CancelKeepsForm ==
    [][\A k \in {"esc", "ctrl+c"} :
          (KeyStep(k) /\ addingNewCard) =>
              /\ ~addingNewCard'
              /\ BuffersKept
              /\ focusIndex' = focusIndex
              /\ words' = words
              /\ currentIndex' = currentIndex
              /\ showDetails' = showDetails
              /\ loadingExample' = loadingExample
              /\ pc' = "running"]_vars

\* Esc pressed with text in a buffer and the focus on field 2: both are still there
C13_Witness ==
    /\ AfterFormKey("esc") /\ ~addingNewCard
    /\ pc = "running"
    /\ focusIndex = 2
    /\ Buffer(0) = "a"
    /\ Buffer(2) = "a"

----------------------------------------------------------------------------
(* Fetches, as the properties read them *)

\* the fetches issued and not yet answered by an ExampleMsg
Outstanding == BagToSet(inflight)

\* this step issues a fetch
IssuesFetch == fetches' > fetches

(* C14: at most one example fetch is outstanding at any time, whatever the  *)
(* keys and the arrivals of results; no fetch is issued while an earlier    *)
(* one is still in flight.                                                  *)
C14_AtMostOneFetch == BagCardinality(inflight) <= 1

(* C15: in every reachable state loadingExample is true exactly when a      *)
(* fetch issued for the card at currentIndex is outstanding.                *)
C15_LoadingIffOutstanding ==
    loadingExample <=> (\E cmd \in Outstanding : cmd.Index = currentIndex)

\* one half of C15, for reading the runs: loadingExample without a fetch for the card shown
LoadingWithoutFetch ==
    loadingExample /\ ~(\E cmd \in Outstanding : cmd.Index = currentIndex)

----------------------------------------------------------------------------
\* the buffers that have the input focus (0-based)
Focused == {i \in 0..NumInputs - 1 : inputs[i + 1].focus}

(* C16 as stated: in the form exactly one buffer has focus, the one at      *)
(* focusIndex; while browsing (initially, after cancel, after save) no      *)
(* buffer has focus.                                                        *)
C16_FocusOnlyInForm ==
    /\ addingNewCard => Focused = {focusIndex}
    /\ ~addingNewCard => Focused = {}

(* C16 amended: in the form exactly one buffer has focus, the one at        *)
(* focusIndex.  While browsing the focus is never taken away: all four      *)
(* buffers have it until the form is first opened, and leaving the form by  *)
(* cancel or save leaves it on the buffer that had it.                      *)
C16_FocusInForm ==
    /\ [](addingNewCard => Focused = {focusIndex})
    /\ [](~addingNewCard => (Focused = 0..NumInputs - 1 \/ Cardinality(Focused) = 1))
    /\ []((~addingNewCard /\ lastEvent = NoEvent) => Focused = 0..NumInputs - 1)
    /\ [][~addingNewCard' => (\A i \in 1..NumInputs : inputs'[i].focus = inputs[i].focus)]_vars

\* a card was saved with the focus on field 2: browsing, field 2 focused, focusIndex 0
C16_Witness ==
    /\ AfterFormKey("enter") /\ ~addingNewCard
    /\ Len(words) > Len(SeedDeck)
    /\ Focused = {2}
    /\ focusIndex = 0

(* C17: whenever the form is entered (the add key while browsing), all four *)
(* buffers are empty and focusIndex is 0, whatever was typed in an earlier  *)
(* visit of the form that ended by cancel or by save.                       *)
C17_FormOpensEmpty ==
    (AfterBrowsingKey("a") /\ addingNewCard) =>
        /\ \A i \in 1..NumInputs : inputs[i].value = <<>>
        /\ focusIndex = 0

----------------------------------------------------------------------------
\* the focused buffer before this step, and the same buffer after it
FocusedInput == inputs[focusIndex + 1]
FocusedInputAfter == inputs'[focusIndex + 1]

\* rune k is put into the focused buffer at its cursor in this step
InsertedAtCursor(k) ==
    FocusedInputAfter.value =
        SubSeq(FocusedInput.value, 1, FocusedInput.pos) \o <<k>>
            \o SubSeq(FocusedInput.value, FocusedInput.pos + 1, Len(FocusedInput.value))

(* C18: while the form is open the keys bound in the navigation state (q,   *)
(* h, l, the arrows, space, a) go to the focused buffer only: the runes are *)
(* inserted at its cursor, the arrows leave its text as it is, no other     *)
(* buffer changes; they change neither currentIndex, showDetails or         *)
(* loadingExample, nor the deck, focusIndex or the mode, issue no fetch and *)
(* do not end the session.  The only key that changes currentIndex or the   *)
(* deck while the form is open is Enter with buffers 0, 1 and 2 filled.     *)
C18_FormTakesPrecedence ==
    /\ [][\A k \in BindingKeys :
            (KeyStep(k) /\ addingNewCard) =>
                /\ addingNewCard'
                /\ pc' = "running"
                /\ currentIndex' = currentIndex
                /\ showDetails' = showDetails
                /\ loadingExample' = loadingExample
                /\ ~IssuesFetch /\ inflight' = inflight
                /\ words' = words
                /\ focusIndex' = focusIndex
                /\ \A i \in 0..NumInputs - 1 : i # focusIndex => inputs'[i + 1] = inputs[i + 1]
                /\ IF k \in {"left", "right"}
                   THEN FocusedInputAfter.value = FocusedInput.value
                   ELSE InsertedAtCursor(k)]_vars
    /\ [][\A k \in Keys \cup BindingKeys :
            (KeyStep(k) /\ addingNewCard /\ (currentIndex' # currentIndex \/ words' # words))
                => (k = "enter" /\ RequiredFilled)]_vars

\* "q" typed in the form while the details are shown and an example is loading
C18_Witness ==
    /\ AfterFormKey("q") /\ addingNewCard
    /\ pc = "running"
    /\ Buffer(focusIndex) = "q"
    /\ showDetails /\ loadingExample
    /\ inflight # EmptyBag

----------------------------------------------------------------------------
\* this step is Update handling a key, whichever
AnyKeyStep == pc = "running" /\ pc' # "fatal" /\ lastEvent'.type = "key"

(* C19: if every fetch that is issued delivers its result (no fetch stays   *)
(* outstanding for ever) and the user presses no key from some moment on,   *)
(* then from some moment on loadingExample is false for good.               *)
C19_LoadingEnds ==
    ((<>[][~AnyKeyStep]_vars) /\ []<>(inflight = EmptyBag)) => <>[](~loadingExample)

\* the result of the only fetch has arrived, the details are shown, nothing is loading
C19_Witness ==
    /\ lastEvent.type = "ExampleMsg"
    /\ pc = "running"
    /\ fetches > 0
    /\ inflight = EmptyBag
    /\ showDetails
    /\ ~loadingExample

----------------------------------------------------------------------------
\* the form has just been left: the last message handled was its cancel or its save
FormLeft == pc = "running" /\ lastEvent.type = "key" /\ lastEvent.adding /\ ~addingNewCard

(* C20 as stated: when the form is left by save or by cancel, showDetails   *)
(* and loadingExample are exactly as they were when the add key was         *)
(* pressed, and no fetch has been issued since.                             *)
C20_VisitLeavesFlags ==
    FormLeft =>
        /\ showDetails = entry.details
        /\ loadingExample = entry.loading
        /\ fetches = entry.fetches

(* C20 amended: the add key, the keys pressed in the form, the cancel and   *)
(* the save change neither showDetails nor loadingExample and issue no      *)
(* fetch.  When the form is left, showDetails is as it was when the add key *)
(* was pressed and no fetch has been issued since; loadingExample is as it  *)
(* was then, unless it was true and a result arrived while the form was     *)
(* open: a result clears it, and nothing else changes it during the visit.  *)
C20_FormKeysLeaveFlags ==
    /\ [][(AnyKeyStep /\ (addingNewCard \/ lastEvent'.key = "a")) =>
              /\ showDetails' = showDetails
              /\ loadingExample' = loadingExample
              /\ ~IssuesFetch /\ inflight' = inflight]_vars
    /\ [][(pc = "running" /\ addingNewCard /\ loadingExample' # loadingExample) =>
              (MsgStep /\ ~loadingExample')]_vars
    /\ [](FormLeft =>
              /\ showDetails = entry.details
              /\ fetches = entry.fetches
              /\ loadingExample => entry.loading)

\* a card was saved from the form opened on a card whose example was loading: the
\* new card is the current one, its details are shown and marked as loading, and the
\* only fetch ever issued is the one for the old card
C20_Witness ==
    /\ FormLeft /\ lastEvent.key = "enter"
    /\ Len(words) = Len(SeedDeck) + 1
    /\ currentIndex = Len(words) - 1
    /\ showDetails /\ loadingExample
    /\ entry.details /\ entry.loading
    /\ fetches = 1
    /\ \A cmd \in Outstanding : cmd.Index # currentIndex

====
